---- MODULE Spec2Model ----
(***************************************************************************)
(* Model of src-tauri/src/main.rs: the native shell of the Todo App.       *)
(* The state is the set of open webview windows, the allow-list of menu    *)
(* ids, the life-cycle phase of the process and the signals emitted to the *)
(* front end.  The operations are the setup hook, the on_menu_event        *)
(* closure, the (empty) invoke handler and the host's window life cycle.   *)
(* `events` and `invocations` are history logs of the handled calls.       *)
(***************************************************************************)
EXTENDS Naturals, Sequences, FiniteSets

\* ---- bounds of the exploration ----
MaxEvents == 2
MaxInvokes == 1

\* ---- inputs ----
\* window labels the host may have open
Labels == {"main", "secondary"}
\* identifiers a menu event may carry: the two application items, a
\* predefined item, a case variant of an application item
MenuIds == {"preferences", "sign_out", "quit", "Preferences"}
\* command names the front end may invoke
CommandNames == {"sign_out", "greet"}
\* cfg(target_os): the platform the binary was built for
Platforms == {"macos", "other"}

VARIABLES phase, platform, windows, allowed, handlerSet, signals, events,
          invocations

vars == <<phase, platform, windows, allowed, handlerSet, signals, events,
          invocations>>

\* ---- Option<T> and the unit value ----
None == <<>>
Some(x) == <<x>>
Unit == "()"

\* const ALLOWED_MENU_IDS: &[&str] = &["preferences", "sign_out"];
ALLOWED_MENU_IDS == {"preferences", "sign_out"}

\* fn is_valid_menu_id(id): ALLOWED_MENU_IDS.contains(&id), exact match
is_valid_menu_id(id) == id \in allowed

\* tauri::generate_handler![] : the set of registered commands (none)
generate_handler == {}

\* the invoke handler accepts exactly the registered commands
invoke_handler(cmd) == cmd \in generate_handler

\* a lookup that ignores the label and returns whichever window is open
get_webview_window_any(l) ==
    IF windows = {} THEN None ELSE Some(CHOOSE w \in windows : w # l \/ windows = {l})

\* app.get_webview_window(l): the open window registered under label l
get_webview_window(l) == IF l \in windows THEN Some(l) ELSE None

\* window.label(): a window is identified by its label
label(w) == w

\* window.emit(name, payload): Ok and one signal from this window, or Err
emit(w, name, payload, emitOk) ==
    IF emitOk
    THEN [ok |-> TRUE, sigs |-> <<[name |-> name, window |-> w, payload |-> payload]>>]
    ELSE [ok |-> FALSE, sigs |-> <<>>]

\* .unwrap(): an Err panics
unwrap(r) ==
    [outcome |-> IF r.ok THEN "emitted" ELSE "panicked",
     sigs |-> r.sigs, attempts |-> 1, panicked |-> ~r.ok]

\* .unwrap_or_else(|_e| { eprintln!(..) }): an Err is logged and dropped
unwrap_or_else(r) ==
    [outcome |-> IF r.ok THEN "emitted" ELSE "emit-failed-nonfatal",
     sigs |-> r.sigs, attempts |-> 1, panicked |-> FALSE]

Discard(why) == [outcome |-> why, sigs |-> <<>>, attempts |-> 0, panicked |-> FALSE]

\* one arm of the match: `if let Some(window)` replaced by `.unwrap()`
HandleArm_unwrapWindow(name, emitOk) ==
    LET w == get_webview_window("main") IN
    IF w = None THEN [outcome |-> "panicked", sigs |-> <<>>, attempts |-> 0, panicked |-> TRUE]
    ELSE IF label(w[1]) # "main" THEN Discard("discarded-wrong-label")
    ELSE unwrap_or_else(emit(w[1], name, Unit, emitOk))

\* one arm of the match: `unwrap_or_else` replaced by `unwrap`
HandleArm_unwrapEmit(name, emitOk) ==
    LET w == get_webview_window("main") IN
    IF w = None THEN Discard("discarded-no-window")
    ELSE IF label(w[1]) # "main" THEN Discard("discarded-wrong-label")
    ELSE unwrap(emit(w[1], name, Unit, emitOk))

\* one arm of the match: resolves any open window and skips the label check
HandleArm_anyWindow(name, emitOk) ==
    LET w == get_webview_window_any("main") IN
    IF w = None THEN Discard("discarded-no-window")
    ELSE unwrap_or_else(emit(w[1], name, Unit, emitOk))

\* one arm of the match (lines 150-161 and 167-178): look the main window
\* up, check its label, emit the signal with a unit payload, absorb an Err
HandleArm(name, emitOk) ==
    LET w == get_webview_window("main") IN
    IF w = None THEN Discard("discarded-no-window")
    ELSE IF label(w[1]) # "main" THEN Discard("discarded-wrong-label")
    ELSE unwrap_or_else(emit(w[1], name, Unit, emitOk))

\* the closure without the allow-list check and with a catch-all arm
Dispatch_catchAll(id, emitOk) ==
    IF id = "preferences" THEN HandleArm("navigate-to-preferences", emitOk)
    ELSE HandleArm("sign-out-user", emitOk)

\* the closure with the signal names of the two arms swapped
Dispatch_swapped(id, emitOk) ==
    IF ~is_valid_menu_id(id) THEN Discard("discarded-invalid-id")
    ELSE CASE id = "preferences" -> HandleArm("sign-out-user", emitOk)
           [] id = "sign_out" -> HandleArm("navigate-to-preferences", emitOk)
           [] OTHER -> Discard("unhandled-noop")

\* the closure emitting once more after a successful emission
Dispatch_twice(id, emitOk) ==
    IF ~is_valid_menu_id(id) THEN Discard("discarded-invalid-id")
    ELSE LET r == CASE id = "preferences" -> HandleArm("navigate-to-preferences", emitOk)
                    [] id = "sign_out" -> HandleArm("sign-out-user", emitOk)
                    [] OTHER -> Discard("unhandled-noop")
         IN [r EXCEPT !.sigs = r.sigs \o r.sigs, !.attempts = 2 * r.attempts]

\* body of the on_menu_event closure: allow-list check, then the match
Dispatch(id, emitOk) ==
    IF ~is_valid_menu_id(id) THEN Discard("discarded-invalid-id")
    ELSE CASE id = "preferences" -> HandleArm("navigate-to-preferences", emitOk)
           [] id = "sign_out" -> HandleArm("sign-out-user", emitOk)
           [] OTHER -> Discard("unhandled-noop")

TypeOK ==
    /\ phase \in {"setup", "running", "aborted", "crashed"}
    /\ platform \in Platforms
    /\ windows \subseteq Labels
    /\ handlerSet \in BOOLEAN
    /\ Len(events) <= MaxEvents
    /\ Len(invocations) <= MaxInvokes

\* the process after Builder::default(): the host has created the window
\* labelled "main", nothing is emitted, no handler is registered yet
Init ==
    /\ phase = "setup"
    /\ platform \in Platforms
    /\ windows = {"main"}
    /\ allowed = ALLOWED_MENU_IDS
    /\ handlerSet = FALSE
    /\ signals = <<>>
    /\ events = <<>>
    /\ invocations = <<>>

\* .setup(|app| ...): unwrap of the main window, then (macOS only) vibrancy,
\* menu construction and registration of the menu handler; any failure
\* (`?`, expect, unwrap) ends the process
Setup(ok) ==
    /\ phase = "setup"
    /\ IF get_webview_window("main") = None \/ ~ok
       THEN phase' = "aborted" /\ handlerSet' = handlerSet
       ELSE phase' = "running" /\ handlerSet' = (platform = "macos")
    /\ UNCHANGED <<platform, windows, allowed, signals, events, invocations>>

\* a handler that suppresses an event repeating the previous event's id
OnMenuEvent_dedup(id, emitOk) ==
    /\ phase = "running"
    /\ handlerSet
    /\ Len(events) < MaxEvents
    /\ LET d == Dispatch(id, emitOk)
           r == IF events # <<>> /\ events[Len(events)].id = id
                THEN Discard("discarded-duplicate") ELSE d
       IN /\ signals' = signals \o r.sigs
          /\ events' = Append(events,
                 [id |-> id, wins |-> windows, emitOk |-> emitOk,
                  outcome |-> r.outcome, sigs |-> r.sigs, attempts |-> r.attempts,
                  phaseAfter |-> IF r.panicked THEN "crashed" ELSE phase])
          /\ phase' = IF r.panicked THEN "crashed" ELSE phase
    /\ UNCHANGED <<platform, windows, allowed, handlerSet, invocations>>

\* a handler that remembers every id it has seen as allowed
OnMenuEvent_learn(id, emitOk) ==
    /\ phase = "running"
    /\ handlerSet
    /\ Len(events) < MaxEvents
    /\ LET r == Dispatch(id, emitOk)
       IN /\ signals' = signals \o r.sigs
          /\ events' = Append(events,
                 [id |-> id, wins |-> windows, emitOk |-> emitOk,
                  outcome |-> r.outcome, sigs |-> r.sigs, attempts |-> r.attempts,
                  phaseAfter |-> IF r.panicked THEN "crashed" ELSE phase])
          /\ phase' = IF r.panicked THEN "crashed" ELSE phase
    /\ allowed' = allowed \cup {id}
    /\ UNCHANGED <<platform, windows, handlerSet, invocations>>

\* app.on_menu_event(move |app, event| ...): the host calls the closure with
\* a menu id; emitOk is whether window.emit would succeed.  The closure runs
\* only where it was registered and while the process is running.
OnMenuEvent(id, emitOk) ==
    /\ phase = "running"
    /\ handlerSet
    /\ Len(events) < MaxEvents
    /\ LET r == Dispatch(id, emitOk)
       IN /\ signals' = signals \o r.sigs
          /\ events' = Append(events,
                 [id |-> id, wins |-> windows, emitOk |-> emitOk,
                  outcome |-> r.outcome, sigs |-> r.sigs, attempts |-> r.attempts,
                  phaseAfter |-> IF r.panicked THEN "crashed" ELSE phase])
          /\ phase' = IF r.panicked THEN "crashed" ELSE phase
    /\ UNCHANGED <<platform, windows, allowed, handlerSet, invocations>>

\* the front end in window w invokes command cmd: invoke_handler has no
\* command registered, so the invocation is rejected and nothing is emitted
InvokeCommand(cmd, w) ==
    /\ phase = "running"
    /\ w \in windows
    /\ Len(invocations) < MaxInvokes
    /\ invocations' = Append(invocations,
           [cmd |-> cmd, window |-> w, handled |-> invoke_handler(cmd), sigs |-> <<>>])
    /\ UNCHANGED <<phase, platform, windows, allowed, handlerSet, signals, events>>

\* the host opens a window with label l
OpenWindow(l) ==
    /\ phase = "running"
    /\ l \notin windows
    /\ windows' = windows \cup {l}
    /\ UNCHANGED <<phase, platform, allowed, handlerSet, signals, events, invocations>>

\* the host closes the window with label l
CloseWindow(l) ==
    /\ phase = "running"
    /\ l \in windows
    /\ windows' = windows \ {l}
    /\ UNCHANGED <<phase, platform, allowed, handlerSet, signals, events, invocations>>

Next ==
    \/ \E ok \in BOOLEAN : Setup(ok)
    \/ \E id \in MenuIds, emitOk \in BOOLEAN : OnMenuEvent(id, emitOk)
    \/ \E cmd \in CommandNames, w \in Labels : InvokeCommand(cmd, w)
    \/ \E l \in Labels : OpenWindow(l)
    \/ \E l \in Labels : CloseWindow(l)

Spec == Init /\ [][Next]_vars

\* ---- history helpers ----
EventIdx == 1..Len(events)
MainPresent(e) == "main" \in e.wins
Signal(name, w) == [name |-> name, window |-> w, payload |-> Unit]
TerminalOutcomes ==
    {"discarded-invalid-id", "discarded-no-window", "discarded-wrong-label",
     "emitted", "emit-failed-nonfatal"}

RECURSIVE SignalsOf(_)
SignalsOf(es) == IF es = <<>> THEN <<>> ELSE es[1].sigs \o SignalsOf(Tail(es))

\* C1: a menu event whose id is not "preferences" or "sign_out" emits no
\* signal and makes no emission attempt, whether or not the main window is
\* open; if only such events were handled, nothing at all has been emitted.
C1_InvalidIdEmitsNothing ==
    /\ \A i \in EventIdx :
          events[i].id \notin {"preferences", "sign_out"}
             => events[i].sigs = <<>> /\ events[i].attempts = 0
    /\ (\A i \in EventIdx : events[i].id \notin {"preferences", "sign_out"})
          => signals = <<>>

C1_Witness ==
    /\ Len(events) = 2
    /\ events[1].id = "Preferences" /\ MainPresent(events[1]) /\ events[1].emitOk
    /\ events[2].id = "quit" /\ ~MainPresent(events[2])
    /\ signals = <<>>

\* C2: with the main window open and emission succeeding, "preferences"
\* emits exactly the one signal navigate-to-preferences and "sign_out"
\* exactly the one signal sign-out-user, from the main window, unit payload.
C2_ValidIdEmitsItsSignal ==
    \A i \in EventIdx :
       MainPresent(events[i]) /\ events[i].emitOk
          => /\ events[i].id = "preferences"
                  => events[i].sigs = <<Signal("navigate-to-preferences", "main")>>
             /\ events[i].id = "sign_out"
                  => events[i].sigs = <<Signal("sign-out-user", "main")>>

C2_Witness ==
    /\ Len(events) = 2
    /\ events[1].id = "preferences" /\ events[2].id = "sign_out"
    /\ signals = <<Signal("navigate-to-preferences", "main"),
                   Signal("sign-out-user", "main")>>

\* C3: every invocation of the sign_out command is accepted by the invoke
\* handler and emits exactly one "sign-out" signal to the invoking window.
C3_SignOutCommandEmits ==
    \A k \in 1..Len(invocations) :
       invocations[k].cmd = "sign_out"
          => /\ invocations[k].handled
             /\ invocations[k].sigs = <<Signal("sign-out", invocations[k].window)>>

\* C4: "preferences" or "sign_out" handled while no window labelled "main"
\* is open emits nothing, ends as discarded-no-window and leaves the process
\* running.
C4_NoMainWindowIsHarmless ==
    /\ \A i \in EventIdx :
          events[i].id \in {"preferences", "sign_out"} /\ ~MainPresent(events[i])
             => /\ events[i].sigs = <<>>
                /\ events[i].outcome = "discarded-no-window"
                /\ events[i].phaseAfter = "running"
    /\ (events # <<>> => phase = "running")

C4_Witness ==
    /\ Len(events) = 2
    /\ events[1].id = "preferences" /\ events[1].wins = {}
    /\ events[2].id = "sign_out" /\ events[2].wins = {}
    /\ signals = <<>>
    /\ phase = "running"

C6_MenuEventsNeverTerminate ==
    /\ \A i \in EventIdx :
          /\ events[i].phaseAfter = "running"
          /\ events[i].attempts <= 1
          /\ ( /\ events[i].id \in {"preferences", "sign_out"}
               /\ MainPresent(events[i])
               /\ ~events[i].emitOk )
             => /\ events[i].outcome = "emit-failed-nonfatal"
                /\ events[i].attempts = 1
                /\ events[i].sigs = <<>>
    /\ (events # <<>> => phase = "running")

C6_Witness ==
    /\ Len(events) = 2
    /\ events[1].id = "sign_out" /\ events[1].outcome = "emit-failed-nonfatal"
    /\ events[2].id = "sign_out" /\ events[2].outcome = "emitted"
    /\ phase = "running"
    /\ signals = <<Signal("sign-out-user", "main")>>

\* C7: every handled event emits at most one signal and ends in one of the
\* five terminal outcomes, "emitted" exactly when it emitted its signal; the
\* number of signals never exceeds the number of handled events.
C7_AtMostOneSignalPerEvent ==
    /\ \A i \in EventIdx :
          /\ Len(events[i].sigs) <= 1
          /\ events[i].outcome \in TerminalOutcomes
          /\ (events[i].outcome = "emitted") <=> (Len(events[i].sigs) = 1)
    /\ Len(signals) <= Len(events)

C7_Witness ==
    /\ Len(events) = 2
    /\ events[1].outcome = "emitted"
    /\ events[2].outcome = "discarded-invalid-id"
    /\ Len(signals) = 1

\* C8: the allow-list is {"preferences", "sign_out"} in every reachable
\* state.
C8_AllowListImmutable == allowed = {"preferences", "sign_out"}

C8_Witness ==
    /\ Len(events) = 2
    /\ events[1].id = "quit"
    /\ events[2].id = "preferences"
    /\ windows = {"secondary"}
    /\ allowed = {"preferences", "sign_out"}

\* C9: two handled events with the same id, the same presence of the main
\* window and the same emission result have the same outcome and signals,
\* wherever they stand in the history; the emitted signals are those of the
\* handled events in handling order; and a step that handles an event only
\* appends that event's signals and changes nothing else.
C9_StatelessDispatch ==
    /\ [](/\ \A i, j \in EventIdx :
                ( /\ events[i].id = events[j].id
                  /\ MainPresent(events[i]) = MainPresent(events[j])
                  /\ events[i].emitOk = events[j].emitOk )
                => /\ events[i].outcome = events[j].outcome
                   /\ events[i].sigs = events[j].sigs
          /\ signals = SignalsOf(events))
    /\ [][Len(events') > Len(events)
            => /\ signals' = signals \o events'[Len(events')].sigs
               /\ UNCHANGED <<phase, platform, windows, allowed, handlerSet,
                              invocations>>]_vars

C9_Witness ==
    /\ Len(events) = 2
    /\ events[1].id = "sign_out" /\ events[1].outcome = "emitted"
    /\ events[2] = events[1]
    /\ signals = <<Signal("sign-out-user", "main"), Signal("sign-out-user", "main")>>

\* C10: no handled event ends as discarded-wrong-label, whatever windows
\* are open.
C10_WrongLabelUnreachable ==
    \A i \in EventIdx : events[i].outcome # "discarded-wrong-label"

C10_Witness ==
    /\ Len(events) = 2
    /\ events[1].id = "preferences" /\ events[1].wins = {"main", "secondary"}
    /\ events[1].outcome = "emitted"
    /\ events[2].id = "sign_out" /\ events[2].wins = {"secondary"}
    /\ events[2].outcome = "discarded-no-window"

====
